---- MODULE Spec2Model ----
(***************************************************************************)
(* Land-use optimisation toolbox: the incremental land-use state           *)
(* (InferenceState), the paired-swap loop (run_paired_inference), the      *)
(* masked arg-max of the scorer (select_action), the two adjacency         *)
(* builders (_build_pn, _build_geom) and the result sink                   *)
(* (write_output_fc).                                                      *)
(*                                                                         *)
(* Arrays are functions over 0..n-1, Python lists are sequences.           *)
(* Floating-point values (slopes, _tfs) are modelled in a reduced binary   *)
(* floating-point format: integers with MantBits significant bits,         *)
(* round-to-nearest, ties-to-even, as IEEE-754 binary64 does with 53.      *)
(***************************************************************************)
EXTENDS Integers, Sequences, FiniteSets, TLC

\* OTHER of the source (a reserved word of TLA+)
LU_OTHER == 0
FARMLAND == 1
FOREST == 2

\* ---- bounds of the model ------------------------------------------------
\* parcels of a run_paired_inference run: n_parcels ranges over 1..MaxParcels
MaxParcels == 4
\* n_pairs ranges over 0..MaxPairs
MaxPairs == 2
\* parcels of a free swap sequence: n_parcels ranges over 1..MaxStateParcels
MaxStateParcels == 3
\* number of swap_to_forest / swap_to_farmland calls of a free swap sequence
MaxSwaps == 3
\* significant bits of the floating-point format (53 in binary64)
MantBits == 3
\* entries of a score vector handed to select_action: 1..MaxScores
MaxScores == 3
\* scores range over 0..MaxScore
MaxScore == 2
\* object ids of the feature class seen by the adjacency builders: 1..MaxOids
MaxOids == 3
\* rows of the output feature class: 1..MaxRows
MaxRows == 2

\* ---- floating point -----------------------------------------------------
RECURSIVE Pow2(_)
Pow2(e) == IF e = 0 THEN 1 ELSE 2 * Pow2(e - 1)

Abs(x) == IF x < 0 THEN -x ELSE x

\* spacing of representable values around magnitude m
RECURSIVE UlpFrom(_, _)
UlpFrom(m, u) == IF m < Pow2(MantBits) * u THEN u ELSE UlpFrom(m, 2 * u)
Ulp(m) == UlpFrom(m, 1)

\* round a magnitude to the nearest representable value, ties to even
RoundMag(m) ==
    LET u == Ulp(m)
        q == m \div u
        r == m % u
    IN  IF 2 * r < u THEN q * u
        ELSE IF 2 * r > u THEN (q + 1) * u
        ELSE IF q % 2 = 0 THEN q * u ELSE (q + 1) * u

Fl(x) == IF x < 0 THEN -RoundMag(-x) ELSE RoundMag(x)

Representable(x) == Fl(x) = x

FAdd(a, b) == Fl(a + b)
FSub(a, b) == Fl(a - b)

\* ---- helpers over arrays --------------------------------------------------
Idx(n) == 0 .. (n - 1)

RECURSIVE SumUpTo(_, _)
\* sum of f[0..m-1], exact integer arithmetic
SumUpTo(f, m) == IF m = 0 THEN 0 ELSE SumUpTo(f, m - 1) + f[m - 1]

\* number of entries of the list nb whose land use is FARMLAND:
\* (land_use[_nb] == FARMLAND).sum()
RECURSIVE CountFarm(_, _)
CountFarm(lu, nb) ==
    IF nb = << >> THEN 0
    ELSE (IF lu[Head(nb)] = FARMLAND THEN 1 ELSE 0) + CountFarm(lu, Tail(nb))

\* slopes[_fm].sum(): the selected slopes added in index order, each addition
\* rounded (numpy adds fewer than 8 elements sequentially)
RECURSIVE FSumFarm(_, _, _)
FSumFarm(lu, sl, m) ==
    IF m = 0 THEN 0
    ELSE IF lu[m - 1] = FARMLAND
         THEN FAdd(FSumFarm(lu, sl, m - 1), sl[m - 1])
         ELSE FSumFarm(lu, sl, m - 1)

\* ---- InferenceState -------------------------------------------------------
\* _recompute: the aggregates by a full scan of land_use and adjacency
recompute(s) ==
    LET lu  == s.land_use
        cnt == [i \in Idx(s.n_parcels) |-> CountFarm(lu, s.adjacency[i])]
    IN  [s EXCEPT
           !.nf = Cardinality({i \in Idx(s.n_parcels) : lu[i] = FARMLAND}),
           !.nr = Cardinality({i \in Idx(s.n_parcels) : lu[i] = FOREST}),
           !.tfs = FSumFarm(lu, s.slopes, s.n_parcels),
           !.tfs_np = FALSE,
           !.fnc = cnt,
           !.tfa = SumUpTo([i \in Idx(s.n_parcels) |->
                              IF lu[i] = FARMLAND THEN cnt[i] ELSE 0],
                           s.n_parcels)]

\* ascending indices of the parcels initially Farmland or Forest (np.where)
RECURSIVE SwappableFrom(_, _, _)
SwappableFrom(types, i, n) ==
    IF i = n THEN << >>
    ELSE IF types[i] \in {FARMLAND, FOREST}
         THEN <<i>> \o SwappableFrom(types, i + 1, n)
         ELSE SwappableFrom(types, i + 1, n)

\* __init__: the state after construction; the baseline is the first scan
NewState(slopes, initial_types, adjacency, n) ==
    LET s0 == [n_parcels |-> n, slopes |-> slopes, adjacency |-> adjacency,
               initial_types |-> initial_types,
               si |-> SwappableFrom(initial_types, 0, n),
               land_use |-> initial_types,
               nf |-> 0, nr |-> 0, tfs |-> 0, tfs_np |-> FALSE,
               tfa |-> 0, fnc |-> [i \in Idx(n) |-> 0],
               i_tfs |-> 0, i_tfa |-> 0, i_nf |-> 0]
        s1 == recompute(s0)
    IN  [s1 EXCEPT !.i_tfs = s1.tfs, !.i_tfa = s1.tfa, !.i_nf = s1.nf]

\* the loop over adjacency[k] of swap_to_forest: every neighbour's cached
\* farmland-neighbour count drops by one, and _tfa drops by one for each
\* neighbour that is Farmland
RECURSIVE ForestLoop(_, _)
ForestLoop(s, nb) ==
    IF nb = << >> THEN s
    ELSE LET j == Head(nb)
             t == [s EXCEPT !.fnc[j] = @ - 1,
                            !.tfa = IF s.land_use[j] = FARMLAND THEN @ - 1 ELSE @]
         IN  ForestLoop(t, Tail(nb))

swap_to_forest_noloop(s, k) ==
    [s EXCEPT !.tfa = @ - s.fnc[k],
              !.tfs = FSub(@, s.slopes[k]), !.tfs_np = TRUE,
              !.land_use[k] = FOREST,
              !.nf = @ - 1, !.nr = @ + 1]

swap_to_forest(s, k) ==
    LET t == [s EXCEPT !.tfa = @ - s.fnc[k],
                       !.tfs = FSub(@, s.slopes[k]), !.tfs_np = TRUE,
                       !.land_use[k] = FOREST,
                       !.nf = @ - 1, !.nr = @ + 1]
    IN  ForestLoop(t, s.adjacency[k])

RECURSIVE FarmlandLoop(_, _)
FarmlandLoop(s, nb) ==
    IF nb = << >> THEN s
    ELSE LET j == Head(nb)
             t == [s EXCEPT !.fnc[j] = @ + 1,
                            !.tfa = IF s.land_use[j] = FARMLAND THEN @ + 1 ELSE @]
         IN  FarmlandLoop(t, Tail(nb))

swap_to_farmland_nofnc(s, k) ==
    LET t == [s EXCEPT !.land_use[k] = FARMLAND,
                       !.nf = @ + 1, !.nr = @ - 1,
                       !.tfs = FAdd(@, s.slopes[k]), !.tfs_np = TRUE]
    IN  FarmlandLoop(t, s.adjacency[k])

swap_to_farmland(s, k) ==
    LET t == [s EXCEPT !.land_use[k] = FARMLAND,
                       !.nf = @ + 1, !.nr = @ - 1,
                       !.tfs = FAdd(@, s.slopes[k]), !.tfs_np = TRUE,
                       !.tfa = @ + s.fnc[k]]
    IN  FarmlandLoop(t, s.adjacency[k])

\* ---- inputs ---------------------------------------------------------------
\* the ascending list of the members of a set of indices
RECURSIVE SortedSeq(_)
SortedSeq(S) ==
    IF S = {} THEN << >>
    ELSE LET m == CHOOSE x \in S : \A y \in S : x <= y
         IN  <<m>> \o SortedSeq(S \ {m})

\* the adjacency lists of a set of directed edges
AdjOf(E, n) == [i \in Idx(n) |-> SortedSeq({j \in Idx(n) : <<i, j>> \in E})]

Sym(E) == E \cup {<<e[2], e[1]>> : e \in E}
PathE(n) == Sym({<<i, i + 1>> : i \in 0 .. (n - 2)})
RingE(n) == IF n < 3 THEN PathE(n) ELSE Sym({<<i, (i + 1) % n>> : i \in Idx(n)})

\* symmetric graphs without self-loops, as build_adjacency produces them
SymGraphs(n) == {AdjOf(RingE(n), n), AdjOf(PathE(n), n), AdjOf({}, n)}
\* and two adjacency arguments that break the precondition: a one-directional
\* path, and a path with a self-loop on parcel 0
AnyGraphs(n) ==
    SymGraphs(n) \cup {AdjOf({<<i, i + 1>> : i \in 0 .. (n - 2)}, n),
                       AdjOf(PathE(n) \cup {<<0, 0>>}, n)}

IsSymmetric(adj, n) ==
    \A i, j \in Idx(n) :
        (\E p \in DOMAIN adj[i] : adj[i][p] = j) <=> (\E q \in DOMAIN adj[j] : adj[j][q] = i)
NoSelfLoop(adj, n) == \A i \in Idx(n) : \A p \in DOMAIN adj[i] : adj[i][p] # i

\* slope vectors (every value representable in the floating-point format)
SlopesA(n) == [i \in Idx(n) |-> <<1, 5, 2, 6>>[(i % 4) + 1]]
SlopesB(n) == [i \in Idx(n) |-> <<1, 7, 6, 0>>[(i % 4) + 1]]
SlopeVectors(n) == {SlopesA(n), SlopesB(n)}

TypeVectors(n) == [Idx(n) -> {LU_OTHER, FARMLAND, FOREST}]

VARIABLES
    st,      \* the InferenceState object
    rn,      \* run_paired_inference: its arguments n_pairs and scorer, its
             \* locals _sw, _sc, _cp, _pi, its position pc and what it returned
    calls,   \* swap calls made on st so far (free swap sequences)
    rt,      \* "half" after swap_to_forest(k), "full" after swap_to_farmland(k)
             \* follows it immediately on the same k, "none" otherwise
    snap,    \* [k, pre]: the parcel and the state before that swap_to_forest(k)
    sel,     \* one call of select_action: its arguments and its result
    ab,      \* the adjacency builders: the feature class, the id map, and the
             \* graph each strategy built
    sink     \* write_output_fc: its arguments, its cursor, the rows written,
             \* the conversion counts and the messages emitted

vars == <<st, rn, calls, rt, snap, sel, ab, sink>>

\* values of the variables a specification does not use
NoState == [n_parcels |-> 0]
NoRun == [pc |-> "idle"]
NoSnap == [k |-> 0, pre |-> NoState]
NoSel == [pc |-> "idle"]
NoBuild == [pc |-> "idle"]
NoSink == [pc |-> "idle"]

\* ---- free sequences of swap calls on an InferenceState --------------------
InitSwap ==
    \E n \in 1 .. MaxStateParcels :
        \E types \in TypeVectors(n), adj \in AnyGraphs(n), sl \in SlopeVectors(n) :
            /\ st = NewState(sl, types, adj, n)
            /\ rn = NoRun
            /\ calls = 0
            /\ rt = "none"
            /\ snap = [k |-> 0, pre |-> NewState(sl, types, adj, n)]
            /\ sel = NoSel /\ ab = NoBuild /\ sink = NoSink

SwapToForest(k) ==
    /\ calls < MaxSwaps
    /\ st.land_use[k] = FARMLAND
    /\ st' = swap_to_forest(st, k)
    /\ calls' = calls + 1
    /\ rt' = "half"
    /\ snap' = [k |-> k, pre |-> st]
    /\ UNCHANGED <<rn, sel, ab, sink>>

SwapToFarmland(k) ==
    /\ calls < MaxSwaps
    /\ st.land_use[k] = FOREST
    /\ st' = swap_to_farmland(st, k)
    /\ calls' = calls + 1
    /\ IF rt = "half" /\ snap.k = k
       THEN rt' = "full" /\ snap' = snap
       ELSE rt' = "none" /\ snap' = [k |-> 0, pre |-> st']
    /\ UNCHANGED <<rn, sel, ab, sink>>

NextSwap ==
    \E k \in Idx(st.n_parcels) : SwapToForest(k) \/ SwapToFarmland(k)

SpecSwap == InitSwap /\ [][NextSwap]_vars

\* ---- C1, C2 ---------------------------------------------------------------
\* exact sum of all slopes, and the spacing of the format at twice that size:
\* no value of _tfs is rounded by more than half of it
SumSlopes(s) == SumUpTo(s.slopes, s.n_parcels)
UlpBound(s) == Ulp(2 * SumSlopes(s))

\* every sum of parcel slopes is representable: no operation on _tfs rounds
ExactSlopeSums(s) ==
    \A S \in SUBSET Idx(s.n_parcels) :
        Representable(SumUpTo([i \in Idx(s.n_parcels) |->
                                 IF i \in S THEN s.slopes[i] ELSE 0], s.n_parcels))

WellFormed(s) ==
    IsSymmetric(s.adjacency, s.n_parcels) /\ NoSelfLoop(s.adjacency, s.n_parcels)

ExactAggregates(s) ==
    LET r == recompute(s)
    IN  s.nf = r.nf /\ s.nr = r.nr /\ s.tfa = r.tfa

\* C1 as stated: on a symmetric, self-loop-free graph the four aggregates
\* _nf, _nr, _tfs, _tfa equal what _recompute would produce.
C1_Exact ==
    WellFormed(st) => (ExactAggregates(st) /\ st.tfs = recompute(st).tfs)

\* C1 amended: on a symmetric, self-loop-free graph _nf, _nr and _tfa equal
\* the re-scan exactly, and _tfs differs from the re-scanned sum by at most
\* the accumulated rounding: half a unit in the last place per floating-point
\* addition or subtraction made (one per swap call, and the additions of the
\* two scans); it equals the re-scanned sum exactly when every sum of parcel
\* slopes is representable.
C1_Consistent ==
    WellFormed(st) =>
        /\ ExactAggregates(st)
        /\ 2 * Abs(st.tfs - recompute(st).tfs)
              <= (calls + 2 * st.n_parcels) * UlpBound(st)
        /\ ExactSlopeSums(st) => st.tfs = recompute(st).tfs

C1_Witness ==
    /\ WellFormed(st)
    /\ calls = MaxSwaps
    /\ st.tfa > 0
    /\ st.tfs # recompute(st).tfs

SameButSlopeSum(s, p) ==
    /\ s.land_use = p.land_use
    /\ s.nf = p.nf
    /\ s.nr = p.nr
    /\ s.tfa = p.tfa
    /\ s.fnc = p.fnc

\* C2 as stated: swap_to_forest(k) then swap_to_farmland(k) restores land_use,
\* _nf, _nr, _tfs, _tfa and _fnc to exactly their values before the first call.
C2_Exact ==
    rt = "full" => (SameButSlopeSum(st, snap.pre) /\ st.tfs = snap.pre.tfs)

\* C2 amended: the round trip restores land_use, _nf, _nr, _tfa and _fnc
\* exactly, and _tfs up to the rounding of its one subtraction and one
\* addition (at most one unit in the last place), exactly when every sum of
\* parcel slopes is representable.
C2_RoundTrip ==
    rt = "full" =>
        /\ SameButSlopeSum(st, snap.pre)
        /\ Abs(st.tfs - snap.pre.tfs) <= UlpBound(st)
        /\ ExactSlopeSums(st) => st.tfs = snap.pre.tfs

C2_Witness ==
    /\ rt = "full"
    /\ snap.pre.fnc[snap.k] > 0
    /\ \E p \in DOMAIN st.adjacency[snap.k] :
           st.land_use[st.adjacency[snap.k][p]] = FARMLAND
    /\ st.tfs # snap.pre.tfs

\* ---- ScorerNetwork.select_action -------------------------------------------
\* _l[~action_mask] = -np.inf: a masked score is a pair <<finite, value>>,
\* <<0, 0>> being -inf, ordered lexicographically
MaskScores(l, mask) ==
    [a \in DOMAIN l |-> IF mask[a] THEN <<1, l[a]>> ELSE <<0, 0>>]

Greater(x, y) == x[1] > y[1] \/ (x[1] = y[1] /\ x[2] > y[2])

\* np.argmax: the first index holding the maximum, found scanning in index
\* order (a later entry replaces the best only when strictly greater)
RECURSIVE ArgMaxFrom(_, _, _, _)
ArgMaxFrom(m, a, n, best) ==
    IF a = n THEN best
    ELSE ArgMaxFrom(m, a + 1, n, IF Greater(m[a], m[best]) THEN a ELSE best)

ArgMaxLast(m, n) ==
    CHOOSE b \in Idx(n) :
        /\ \A a \in Idx(n) : ~Greater(m[a], m[b])
        /\ \A a \in Idx(n) : (a > b) => Greater(m[b], m[a])

ArgMax(m, n) == ArgMaxFrom(m, 1, n, 0)

\* select_action on the score vector l that score_parcels returned (a
\* function over 0..n-1, n >= 1) and the mask
select_action(l, mask, n) == ArgMax(MaskScores(l, mask), n)

\* ---- run_paired_inference --------------------------------------------------
NSwappable(s) == Len(s.si)
\* the parcel of position a of the swappable index array: _si[_a]
Parcel(s, a) == s.si[a + 1]

\* _fm = (land_use[_si] == FARMLAND) & (~_sw)
phase0_mask(s, sw) ==
    [a \in Idx(NSwappable(s)) |-> s.land_use[Parcel(s, a)] = FARMLAND /\ ~sw[a]]

phase1_mask_any_forest(s, sw) ==
    [a \in Idx(NSwappable(s)) |-> s.land_use[Parcel(s, a)] = FOREST]

\* _rm = (land_use[_si] == FOREST) & (~_sw)
phase1_mask(s, sw) ==
    [a \in Idx(NSwappable(s)) |-> s.land_use[Parcel(s, a)] = FOREST /\ ~sw[a]]

AnyTrue(mask) == \E a \in DOMAIN mask : mask[a]

\* the score vectors score_parcels may return.  A network's scores are finite;
\* which entry is largest is the network's business: the vectors with one
\* entry above the others, and the constant vector, give select_action every
\* result it can have.  The scorer "lowest_index" scores all parcels alike, so
\* select_action returns the lowest eligible index.
ScoreVectors(scorer, n) ==
    IF scorer = "lowest_index"
    THEN {[a \in Idx(n) |-> 0]}
    ELSE {[a \in Idx(n) |-> IF a = h THEN 1 ELSE 0] : h \in Idx(n)}

Scorers == {"lowest_index", "network"}

Init ==
    \E n \in 1 .. MaxParcels :
        \E types \in TypeVectors(n), adj \in SymGraphs(n), sl \in SlopeVectors(n),
           np \in 0 .. MaxPairs, scorer \in Scorers :
            /\ st = NewState(sl, types, adj, n)
            /\ rn = [n_pairs |-> np, scorer |-> scorer,
                     sw |-> [a \in Idx(Len(SwappableFrom(types, 0, n))) |-> FALSE],
                     sc |-> 0, cp |-> 0, pi |-> 0, pc |-> "phase0",
                     stop |-> "none", returned |-> FALSE, final_types |-> << >>,
                     farmland_change |-> 0, completed_pairs |-> 0]
            /\ calls = 0
            /\ rt = "none"
            /\ snap = NoSnap
            /\ sel = NoSel /\ ab = NoBuild /\ sink = NoSink

\* for _pi in range(n_pairs): the range is exhausted
LoopExit ==
    /\ rn.pc = "phase0"
    /\ rn.pi = rn.n_pairs
    /\ rn' = [rn EXCEPT !.pc = "exit", !.stop = "exhausted"]
    /\ UNCHANGED <<st, calls, rt, snap, sel, ab, sink>>

\* phase 0 finds no eligible parcel: break
Phase0Stop ==
    /\ rn.pc = "phase0"
    /\ rn.pi < rn.n_pairs
    /\ ~AnyTrue(phase0_mask(st, rn.sw))
    /\ rn' = [rn EXCEPT !.pc = "exit", !.stop = "phase0"]
    /\ UNCHANGED <<st, calls, rt, snap, sel, ab, sink>>

\* phase 0: select, swap_to_forest, mark used
Phase0Swap ==
    /\ rn.pc = "phase0"
    /\ rn.pi < rn.n_pairs
    /\ AnyTrue(phase0_mask(st, rn.sw))
    /\ \E l \in ScoreVectors(rn.scorer, NSwappable(st)) :
          LET a == select_action(l, phase0_mask(st, rn.sw), NSwappable(st))
          IN  /\ st' = swap_to_forest(st, Parcel(st, a))
              /\ rn' = [rn EXCEPT !.sw[a] = TRUE, !.sc = @ + 1, !.pc = "phase1"]
    /\ UNCHANGED <<calls, rt, snap, sel, ab, sink>>

Phase1StopRollback ==
    /\ rn.pc = "phase1"
    /\ ~AnyTrue(phase1_mask(st, rn.sw))
    /\ \E a \in Idx(NSwappable(st)) :
          /\ rn.sw[a]
          /\ st.land_use[Parcel(st, a)] = FOREST
          /\ st' = swap_to_farmland(st, Parcel(st, a))
    /\ rn' = [rn EXCEPT !.pc = "exit", !.stop = "phase1"]
    /\ UNCHANGED <<calls, rt, snap, sel, ab, sink>>

\* phase 1 finds no eligible parcel: break (the phase-0 swap stays applied)
Phase1Stop ==
    /\ rn.pc = "phase1"
    /\ ~AnyTrue(phase1_mask(st, rn.sw))
    /\ rn' = [rn EXCEPT !.pc = "exit", !.stop = "phase1"]
    /\ UNCHANGED <<st, calls, rt, snap, sel, ab, sink>>

Phase1SwapNoAdvance ==
    /\ rn.pc = "phase1"
    /\ AnyTrue(phase1_mask(st, rn.sw))
    /\ \E l \in ScoreVectors(rn.scorer, NSwappable(st)) :
          LET a == select_action(l, phase1_mask(st, rn.sw), NSwappable(st))
          IN  /\ st' = swap_to_farmland(st, Parcel(st, a))
              /\ rn' = [rn EXCEPT !.sw[a] = TRUE, !.sc = @ + 1, !.cp = @ + 1,
                                  !.pc = "phase0"]
    /\ UNCHANGED <<calls, rt, snap, sel, ab, sink>>

\* phase 1: select, swap_to_farmland, mark used, count the pair
Phase1Swap ==
    /\ rn.pc = "phase1"
    /\ AnyTrue(phase1_mask(st, rn.sw))
    /\ \E l \in ScoreVectors(rn.scorer, NSwappable(st)) :
          LET a == select_action(l, phase1_mask(st, rn.sw), NSwappable(st))
          IN  /\ st' = swap_to_farmland(st, Parcel(st, a))
              /\ rn' = [rn EXCEPT !.sw[a] = TRUE, !.sc = @ + 1, !.cp = @ + 1,
                                  !.pi = @ + 1, !.pc = "phase0"]
    /\ UNCHANGED <<calls, rt, snap, sel, ab, sink>>

\* _dsl / _st.initial_avg_slope: the baseline average slope _tfs / max(_nf, 1)
\* is a Python float, and it is 0.0 exactly when the baseline _tfs is.  _dsl
\* is a Python float as long as no swap has made _tfs a numpy float64; a Python
\* float divided by 0.0 raises ZeroDivisionError, a numpy float64 divided by
\* 0.0 gives inf or nan.
ReturnRaises(s) == s.i_tfs = 0 /\ ~s.tfs_np

\* the code after the loop: the result record, or the exception
Return ==
    /\ rn.pc = "exit"
    /\ IF ReturnRaises(st)
       THEN rn' = [rn EXCEPT !.pc = "error"]
       ELSE rn' = [rn EXCEPT !.pc = "done", !.returned = TRUE,
                             !.final_types = st.land_use,
                             !.farmland_change = st.nf - st.i_nf,
                             !.completed_pairs = rn.cp]
    /\ UNCHANGED <<st, calls, rt, snap, sel, ab, sink>>

Next ==
    \/ LoopExit
    \/ Phase0Stop
    \/ Phase0Swap
    \/ Phase1Stop
    \/ Phase1Swap
    \/ Return

Spec == Init /\ [][Next]_vars

\* ---- C3, C6, C8, C9, C10 ---------------------------------------------------
AfterLoop == rn.pc \in {"exit", "done", "error"}

\* C3: the loop runs at most n_pairs iterations and ends exactly when n_pairs
\* pairs have completed or when phase 0 or phase 1 finds no eligible parcel
\* (every iteration applies two swaps, and at most 2 * n_pairs are applied);
\* the returned completed_pairs is at most n_pairs.
C3_Terminates ==
    /\ rn.pi <= rn.n_pairs
    /\ rn.cp = rn.pi
    /\ rn.sc <= 2 * rn.n_pairs
    /\ (rn.pc = "phase1") => (rn.pi < rn.n_pairs)
    /\ (rn.pc \in {"phase0", "phase1"}) => (rn.stop = "none")
    /\ AfterLoop =>
          \/ rn.stop = "exhausted" /\ rn.cp = rn.n_pairs
          \/ /\ rn.stop = "phase0"
             /\ rn.cp < rn.n_pairs
             /\ ~AnyTrue(phase0_mask(st, rn.sw))
          \/ /\ rn.stop = "phase1"
             /\ rn.cp < rn.n_pairs
             /\ ~AnyTrue(phase1_mask(st, rn.sw))
    /\ rn.returned => rn.completed_pairs <= rn.n_pairs

C3_Witness ==
    /\ rn.pc = "done"
    /\ rn.stop = "exhausted"
    /\ rn.n_pairs = MaxPairs
    /\ rn.completed_pairs = MaxPairs

\* the scenario of C6
RingScenario ==
    /\ st.n_parcels = 4
    /\ st.adjacency = (0 :> <<1, 3>> @@ 1 :> <<0, 2>> @@ 2 :> <<1, 3>> @@ 3 :> <<0, 2>>)
    /\ st.initial_types = (0 :> FARMLAND @@ 1 :> FOREST @@ 2 :> FARMLAND @@ 3 :> FOREST)
    /\ st.slopes = (0 :> 1 @@ 1 :> 5 @@ 2 :> 2 @@ 3 :> 6)
    /\ rn.n_pairs = 1
    /\ rn.scorer = "lowest_index"

\* C6: in the ring scenario the run completes exactly one pair: parcel 0
\* becomes Forest first, then parcel 1 becomes Farmland, the final types are
\* [Forest, Farmland, Farmland, Forest] and the farmland count is 2 again.
C6_RingScenario ==
    RingScenario =>
        /\ (rn.pc = "phase0" /\ rn.pi = 0) =>
              (st.land_use = st.initial_types /\ rn.cp = 0)
        /\ (rn.pc = "phase1") =>
              st.land_use = (0 :> FOREST @@ 1 :> FOREST @@ 2 :> FARMLAND @@ 3 :> FOREST)
        /\ (AfterLoop \/ (rn.pc = "phase0" /\ rn.pi > 0)) =>
              /\ st.land_use = (0 :> FOREST @@ 1 :> FARMLAND @@ 2 :> FARMLAND @@ 3 :> FOREST)
              /\ rn.cp = 1
              /\ st.nf = 2
        /\ rn.pc # "error"
        /\ (rn.pc = "done") =>
              /\ rn.completed_pairs = 1
              /\ rn.farmland_change = 0
              /\ rn.final_types = (0 :> FOREST @@ 1 :> FARMLAND @@ 2 :> FARMLAND @@ 3 :> FOREST)

C6_Witness == RingScenario /\ rn.pc = "done" /\ rn.completed_pairs = 1

\* one step of the run that applies a swap
C8_Step ==
    (rn.pc \in {"phase0", "phase1"} /\ st' # st) =>
        /\ \E a \in Idx(NSwappable(st)) :
              LET k == Parcel(st, a)
              IN  /\ ~rn.sw[a]
                  /\ rn'.sw = [rn.sw EXCEPT ![a] = TRUE]
                  /\ st.initial_types[k] \in {FARMLAND, FOREST}
                  /\ IF rn.pc = "phase0"
                     THEN /\ st.land_use[k] = FARMLAND
                          /\ st'.land_use = [st.land_use EXCEPT ![k] = FOREST]
                     ELSE /\ st.land_use[k] = FOREST
                          /\ st'.land_use = [st.land_use EXCEPT ![k] = FARMLAND]
        /\ \A i \in Idx(st.n_parcels) :
              /\ (st.land_use[i] # st.initial_types[i]) => (st'.land_use[i] = st.land_use[i])
              /\ (st.initial_types[i] = LU_OTHER) => (st'.land_use[i] = LU_OTHER)

\* C8: every swap the run applies targets a swappable parcel that is not yet
\* used and has the type its swap requires (Farmland in phase 0, Forest in
\* phase 1); a parcel that has changed never changes again, and a parcel
\* initially Other never changes.
C8_SwapsOnce == [][C8_Step]_vars

C8_Witness ==
    /\ rn.pc = "phase1"
    /\ rn.sc = 1
    /\ AnyTrue(phase1_mask(st, rn.sw))
    /\ \E a \in Idx(NSwappable(st)) : rn.sw[a] /\ st.land_use[Parcel(st, a)] = FOREST
    /\ \E i \in Idx(st.n_parcels) : st.initial_types[i] = LU_OTHER

Converted(from, to) ==
    Cardinality({i \in Idx(st.n_parcels) :
                    st.initial_types[i] = from /\ rn.final_types[i] = to})

\* C9: the farmland count equals the baseline at the start of every iteration
\* (so after every completed pair); the returned farmland_change is 0 when the
\* loop ended by completing n_pairs pairs or by a phase-0 stop, and -1 when it
\* ended by a phase-1 stop, where the phase-0 swap of the unfinished pair stays
\* in final_types and is not counted in completed_pairs.
C9_Conservation ==
    /\ (rn.pc = "phase0") => (st.nf = st.i_nf)
    /\ (rn.pc = "phase1") => (st.nf = st.i_nf - 1)
    /\ rn.returned =>
          /\ (rn.stop \in {"exhausted", "phase0"}) =>
                /\ rn.farmland_change = 0
                /\ Converted(FARMLAND, FOREST) = rn.completed_pairs
                /\ Converted(FOREST, FARMLAND) = rn.completed_pairs
          /\ (rn.stop = "phase1") =>
                /\ rn.farmland_change = -1
                /\ Converted(FARMLAND, FOREST) = rn.completed_pairs + 1
                /\ Converted(FOREST, FARMLAND) = rn.completed_pairs

C9_Witness ==
    /\ rn.returned
    /\ rn.stop = "phase1"
    /\ rn.completed_pairs = 1
    /\ rn.farmland_change = -1

\* C10: when the loop applies no swap (phase 0 of the first iteration finds no
\* eligible parcel, or n_pairs = 0), the function returns its result record
\* with completed_pairs = 0, farmland_change = 0 and final_types equal to the
\* initial types, without raising an error.
C10_NoSwapReturns ==
    (rn.pc \in {"done", "error"} /\ rn.sc = 0) =>
        /\ rn.pc = "done"
        /\ rn.returned
        /\ rn.completed_pairs = 0
        /\ rn.farmland_change = 0
        /\ rn.final_types = st.initial_types

\* a run on an input without farmland that ends in the exception
C10_Witness ==
    /\ rn.pc = "error"
    /\ rn.sc = 0
    /\ st.i_nf = 0

\* ---- one call of select_action ---------------------------------------------
InitSel ==
    \E n \in 1 .. MaxScores :
        \E l \in [Idx(n) -> 0 .. MaxScore], mask \in [Idx(n) -> BOOLEAN] :
            /\ sel = [pc |-> "call", n |-> n, l |-> l, mask |-> mask, out |-> 0]
            /\ st = NoState /\ rn = NoRun /\ calls = 0 /\ rt = "none"
            /\ snap = NoSnap /\ ab = NoBuild /\ sink = NoSink

SelectAction ==
    /\ sel.pc = "call"
    /\ sel' = [sel EXCEPT !.pc = "returned",
                          !.out = select_action(sel.l, sel.mask, sel.n)]
    /\ UNCHANGED <<st, rn, calls, rt, snap, ab, sink>>

NextSel == SelectAction

SpecSel == InitSel /\ [][NextSel]_vars

\* C5: for a mask with at least one true entry select_action returns an index
\* whose mask entry is true, whose score is the maximum among the mask-true
\* indices, and which is the lowest of the mask-true indices with that score.
C5_MaskedArgMax ==
    (sel.pc = "returned" /\ AnyTrue(sel.mask)) =>
        /\ sel.out \in Idx(sel.n)
        /\ sel.mask[sel.out]
        /\ \A a \in Idx(sel.n) : sel.mask[a] => sel.l[a] <= sel.l[sel.out]
        /\ \A a \in Idx(sel.n) :
              (sel.mask[a] /\ sel.l[a] = sel.l[sel.out]) => sel.out <= a

\* a masked-out entry holds the largest score, and two eligible entries tie
C5_Witness ==
    /\ sel.pc = "returned"
    /\ sel.out > 0
    /\ ~sel.mask[0]
    /\ sel.l[0] > sel.l[sel.out]
    /\ \E a \in Idx(sel.n) : a > sel.out /\ sel.mask[a] /\ sel.l[a] = sel.l[sel.out]

\* ---- build_adjacency: _build_pn and _build_geom ------------------------------
\* The feature class holds the parcels with object ids 1..MaxOids.  Its
\* geometry is what the builders observe of it: for each unordered pair of
\* parcels, whether they are "disjoint", "touch" (their boundaries meet, along
\* a segment or at a point, their areas apart) or "overlap" (their areas
\* overlap, for instance one parcel lies within the other).
Oids == 1 .. MaxOids
OidPairs == {pr \in Oids \X Oids : pr[1] < pr[2]}
Kinds == {"disjoint", "touch", "overlap"}

Kind(geom, o, p) == IF o < p THEN geom[<<o, p>>] ELSE geom[<<p, o>>]

\* arcpy.analysis.PolygonNeighbors(area_overlap="NO_AREA_OVERLAP",
\* both_sides="BOTH_SIDES"): the table of (src, nbr) rows, one row in each
\* direction for every pair of parcels whose boundaries meet; overlapping
\* areas are not analysed
RECURSIVE PNRowsOneSide(_, _, _)
PNRowsOneSide(geom, s, n) ==
    IF s > MaxOids THEN << >>
    ELSE IF n > MaxOids THEN PNRowsOneSide(geom, s + 1, 1)
    ELSE (IF s < n /\ Kind(geom, s, n) = "touch" THEN << <<s, n>> >> ELSE << >>)
         \o PNRowsOneSide(geom, s, n + 1)

RECURSIVE PNRows(_, _, _)
PNRows(geom, s, n) ==
    IF s > MaxOids THEN << >>
    ELSE IF n > MaxOids THEN PNRows(geom, s + 1, 1)
    ELSE (IF s # n /\ Kind(geom, s, n) = "touch" THEN << <<s, n>> >> ELSE << >>)
         \o PNRows(geom, s, n + 1)

\* the cursor loop of _build_pn: a row whose source or neighbour id is not in
\* oid_to_idx is skipped
RECURSIVE PNLoop(_, _, _)
PNLoop(adj, rows, o2i) ==
    IF rows = << >> THEN adj
    ELSE LET s == Head(rows)[1]
             n == Head(rows)[2]
         IN  IF s \in DOMAIN o2i /\ n \in DOMAIN o2i
             THEN PNLoop([adj EXCEPT ![o2i[s]] = Append(@, o2i[n])], Tail(rows), o2i)
             ELSE PNLoop(adj, Tail(rows), o2i)

build_pn(geom, n_parcels, o2i) ==
    PNLoop([i \in Idx(n_parcels) |-> << >>], PNRows(geom, 1, 1), o2i)

\* _gm: the shape of every mapped parcel, by index; _gi.disjoint(_gm[j])
GeomOid(o2i, i) == CHOOSE o \in DOMAIN o2i : o2i[o] = i
Disjoint(geom, o2i, i, j) ==
    IF GeomOid(o2i, i) = GeomOid(o2i, j) THEN FALSE
    ELSE Kind(geom, GeomOid(o2i, i), GeomOid(o2i, j)) = "disjoint"

\* the nested loop of _build_geom over _ids: position p against the positions
\* q after it
RECURSIVE GeomLoop(_, _, _, _, _, _)
GeomLoop(adj, ids, p, q, geom, o2i) ==
    IF p > Len(ids) THEN adj
    ELSE IF q > Len(ids) THEN GeomLoop(adj, ids, p + 1, p + 2, geom, o2i)
    ELSE LET i == ids[p]
             j == ids[q]
         IN  IF ~Disjoint(geom, o2i, i, j)
             THEN GeomLoop([adj EXCEPT ![i] = Append(@, j), ![j] = Append(@, i)],
                           ids, p, q + 1, geom, o2i)
             ELSE GeomLoop(adj, ids, p, q + 1, geom, o2i)

build_geom(geom, n_parcels, o2i) ==
    GeomLoop([i \in Idx(n_parcels) |-> << >>],
             SortedSeq({o2i[o] : o \in DOMAIN o2i}), 1, 2, geom, o2i)

\* oid_to_idx as read_feature_class builds it (the i-th row read gets index
\* i), with the ids of a set of parcels absent
OidToIdx(present) == [o \in present |-> o - 1]

InitAdj ==
    \E geom \in [OidPairs -> Kinds], present \in SUBSET Oids :
        /\ ab = [pc |-> "build", geom |-> geom, n_parcels |-> MaxOids,
                 oid_to_idx |-> OidToIdx(present),
                 built_pn |-> FALSE, adj_pn |-> [i \in Idx(MaxOids) |-> << >>],
                 built_geom |-> FALSE, adj_geom |-> [i \in Idx(MaxOids) |-> << >>]]
        /\ st = NoState /\ rn = NoRun /\ calls = 0 /\ rt = "none"
        /\ snap = NoSnap /\ sel = NoSel /\ sink = NoSink

BuildPN ==
    /\ ab.pc = "build"
    /\ ~ab.built_pn
    /\ ab' = [ab EXCEPT !.built_pn = TRUE,
                        !.adj_pn = build_pn(ab.geom, ab.n_parcels, ab.oid_to_idx)]
    /\ UNCHANGED <<st, rn, calls, rt, snap, sel, sink>>

BuildGeom ==
    /\ ab.pc = "build"
    /\ ~ab.built_geom
    /\ ab' = [ab EXCEPT !.built_geom = TRUE,
                        !.adj_geom = build_geom(ab.geom, ab.n_parcels, ab.oid_to_idx)]
    /\ UNCHANGED <<st, rn, calls, rt, snap, sel, sink>>

NextAdj == BuildPN \/ BuildGeom

SpecAdj == InitAdj /\ [][NextAdj]_vars

\* ---- C4 --------------------------------------------------------------------
EdgeSet(adj, n) ==
    {e \in Idx(n) \X Idx(n) : \E p \in DOMAIN adj[e[1]] : adj[e[1]][p] = e[2]}

BothBuilt == ab.pc = "build" /\ ab.built_pn /\ ab.built_geom

GoodGraph(adj, n) == IsSymmetric(adj, n) /\ NoSelfLoop(adj, n)

\* no two parcels of the id map overlap in area
NoMappedOverlap ==
    \A pr \in OidPairs :
        (pr[1] \in DOMAIN ab.oid_to_idx /\ pr[2] \in DOMAIN ab.oid_to_idx)
            => ab.geom[pr] # "overlap"

\* C4 as stated: for the same parcels and the same id map the two strategies
\* produce identical edge sets, and that edge set is symmetric with no
\* self-loops.
C4_Identical ==
    BothBuilt =>
        /\ EdgeSet(ab.adj_pn, ab.n_parcels) = EdgeSet(ab.adj_geom, ab.n_parcels)
        /\ GoodGraph(ab.adj_pn, ab.n_parcels)
        /\ GoodGraph(ab.adj_geom, ab.n_parcels)

\* C4 amended: each strategy's edge set is symmetric with no self-loops, and
\* the two edge sets are identical provided no two parcels of the id map
\* overlap in area.
C4_IdenticalOnPartition ==
    /\ ab.pc = "build" /\ ab.built_pn => GoodGraph(ab.adj_pn, ab.n_parcels)
    /\ ab.pc = "build" /\ ab.built_geom => GoodGraph(ab.adj_geom, ab.n_parcels)
    /\ (BothBuilt /\ NoMappedOverlap) =>
          EdgeSet(ab.adj_pn, ab.n_parcels) = EdgeSet(ab.adj_geom, ab.n_parcels)

\* both built, an id absent from the map whose parcel touches a mapped one,
\* two mapped parcels that touch, and no overlap
C4_Witness ==
    /\ BothBuilt
    /\ NoMappedOverlap
    /\ EdgeSet(ab.adj_pn, ab.n_parcels) # {}
    /\ \E pr \in OidPairs :
          /\ ab.geom[pr] = "touch"
          /\ ~(pr[1] \in DOMAIN ab.oid_to_idx /\ pr[2] \in DOMAIN ab.oid_to_idx)

\* ---- write_output_fc ---------------------------------------------------------
\* the CHG_FLAG of a row whose parcel has these initial and final types
ChangeFlag(it, ft) ==
    IF it = FARMLAND /\ ft = FOREST THEN 1
    ELSE IF it = FOREST /\ ft = FARMLAND THEN 2
    ELSE 0

\* the row written for object id oid: the fields OPT_DLMC (which label),
\* OPT_TYPE and CHG_FLAG; a row whose id is not in idx_to_oid keeps its own
\* label, with type OTHER and flag 0
RowFor(s, oid) ==
    IF oid \notin s.mapped
    THEN [oid |-> oid, opt_dlmc |-> "orig", opt_type |-> LU_OTHER, chg_flag |-> 0]
    ELSE LET ix == oid - 1
             f  == ChangeFlag(s.initial_types[ix], s.final_types[ix])
         IN  [oid |-> oid,
              opt_dlmc |-> IF f = 1 THEN "forest" ELSE IF f = 2 THEN "farmland" ELSE "orig",
              opt_type |-> s.final_types[ix],
              chg_flag |-> f]

ConservationMessageOneWay(c1, c2) ==
    IF c1 <= c2 THEN "conserved" ELSE "warning"

\* the message that closes the report: addMessage or addWarningMessage
ConservationMessage(c1, c2) ==
    IF c1 = c2 THEN "conserved" ELSE "warning"

\* the output feature class is a copy of the input: rows with object ids
\* 1..n, the parcel of id o having index o - 1 in idx_to_oid unless absent
InitSink ==
    \E n \in 1 .. MaxRows :
        \E it \in TypeVectors(n), ft \in TypeVectors(n),
           mapped \in SUBSET (1 .. n), messages \in BOOLEAN :
            /\ sink = [pc |-> "rows", n_rows |-> n, initial_types |-> it,
                       final_types |-> ft, mapped |-> mapped, messages |-> messages,
                       cur |-> 1, written |-> << >>, c1 |-> 0, c2 |-> 0,
                       log |-> IF messages THEN <<"writing">> ELSE << >>]
            /\ st = NoState /\ rn = NoRun /\ calls = 0 /\ rt = "none"
            /\ snap = NoSnap /\ sel = NoSel /\ ab = NoBuild

\* one iteration of the UpdateCursor loop
UpdateRow ==
    /\ sink.pc = "rows"
    /\ sink.cur <= sink.n_rows
    /\ LET r == RowFor(sink, sink.cur)
       IN  sink' = [sink EXCEPT !.written = Append(@, r),
                                !.c1 = IF r.chg_flag = 1 THEN @ + 1 ELSE @,
                                !.c2 = IF r.chg_flag = 2 THEN @ + 1 ELSE @,
                                !.cur = @ + 1]
    /\ UNCHANGED <<st, rn, calls, rt, snap, sel, ab>>

\* after the cursor is exhausted: the report, if there is a messages object
Report ==
    /\ sink.pc = "rows"
    /\ sink.cur > sink.n_rows
    /\ sink' = [sink EXCEPT
                  !.pc = "done",
                  !.log = IF sink.messages
                          THEN @ \o <<"written", "conversions",
                                      ConservationMessage(sink.c1, sink.c2)>>
                          ELSE @]
    /\ UNCHANGED <<st, rn, calls, rt, snap, sel, ab>>

NextSink == UpdateRow \/ Report

SpecSink == InitSink /\ [][NextSink]_vars

\* ---- C7 --------------------------------------------------------------------
InLog(m) == \E p \in DOMAIN sink.log : sink.log[p] = m

FlagCount(f) ==
    Cardinality({p \in DOMAIN sink.written : sink.written[p].chg_flag = f})

\* the rows written so far are the first rows of the feature class, each with
\* the flag of its parcel's conversion
RowsRight ==
    \A p \in DOMAIN sink.written :
        /\ sink.written[p].oid = p
        /\ sink.written[p].chg_flag =
              IF p \in sink.mapped
              THEN (IF sink.initial_types[p - 1] = FARMLAND /\ sink.final_types[p - 1] = FOREST
                    THEN 1
                    ELSE IF sink.initial_types[p - 1] = FOREST
                            /\ sink.final_types[p - 1] = FARMLAND
                         THEN 2 ELSE 0)
              ELSE 0

AllRowsWritten == Len(sink.written) = sink.n_rows

\* C7 as stated: every row is written with its change flag and only then is
\* conservation reported; the warning is emitted exactly when the number of
\* flag-1 rows differs from the number of flag-2 rows, and the call then still
\* completes with all rows written.
C7_WarnsIffUnequal ==
    /\ RowsRight
    /\ (InLog("conserved") \/ InLog("warning")) => AllRowsWritten
    /\ (sink.pc = "done") =>
          /\ AllRowsWritten
          /\ InLog("warning") <=> (FlagCount(1) # FlagCount(2))

\* C7 amended: as stated, for a call that is given a messages object; without
\* one (messages = None, the default) all rows are written and nothing is
\* reported, whatever the counts.
C7_WarnsIffUnequalWithMessages ==
    /\ RowsRight
    /\ (InLog("conserved") \/ InLog("warning")) => AllRowsWritten
    /\ (sink.pc = "done") =>
          /\ AllRowsWritten
          /\ InLog("warning") <=> (sink.messages /\ FlagCount(1) # FlagCount(2))
          /\ InLog("conserved") <=> (sink.messages /\ FlagCount(1) = FlagCount(2))
          /\ ~sink.messages => sink.log = << >>

C7_Witness ==
    /\ sink.pc = "done"
    /\ sink.messages
    /\ InLog("warning")
    /\ FlagCount(1) = 0
    /\ FlagCount(2) = 1
    /\ AllRowsWritten
    /\ sink.mapped # 1 .. sink.n_rows

====
